---- MODULE Spec2Model ----
(***************************************************************************)
(* WeightNormalization (src/layers.py): a Keras wrapper that replaces the  *)
(* wrapped layer's kernel by  l2_normalize(v) * g  on every call, with a   *)
(* one-time initialization of g (and possibly the bias) on the first call. *)
(*                                                                         *)
(* Numbers.  Kernel entries, inputs and initial biases are integers.  The  *)
(* values the wrapper computes from them (norms, 1/sqrt(var + 1e-10),      *)
(* products of those) are kept exactly, as records                         *)
(*      [s, n, d, f]  =  s * sqrt(n / d) * PROD_{r \in f} 1/sqrt(r + eps)  *)
(* with s the sign, n/d a reduced fraction and f a bag of variances        *)
(* <<num, den>>; eps stands for the literal 1e-10 of line 141.             *)
(* Tensors are records [shape, data] with data in row-major order.         *)
(***************************************************************************)
EXTENDS Integers, Sequences, FiniteSets, Bags, TLC

\* ---------------------------------------------------------------- bounds
\* largest kernel entry drawn for the wrapped layer's initial kernel
MaxW == 1
\* largest number of forward calls in a behaviour
MaxCalls == 2
\* largest number of optimizer steps in a behaviour
MaxTrain == 1
\* largest trailing dimension of a recurrent kernel
MaxDepth == 4

\* Attribute values are records tagged by `is`.
\* an attribute the object does not have (hasattr is False)
NoAttr == [is |-> "no attribute"]

\* Python's None
None == [is |-> "None"]

\* a tf.Variable holding `value`
Variable(value) == [is |-> "variable", value |-> value]

\* an activation attribute that is None (the identity)
NoActivation == "None"

\* no exception
NoError == "no error"

\* ------------------------------------------------------------ arithmetic
RECURSIVE GCD(_, _)
GCD(a, b) == IF b = 0 THEN a ELSE GCD(b, a % b)

Abs(i) == IF i < 0 THEN -i ELSE i

Sign(i) == IF i < 0 THEN -1 ELSE IF i = 0 THEN 0 ELSE 1

\* a reduced fraction <<num, den>>, den > 0, num >= 0
Frac(num, den) == LET k == GCD(num, den) IN <<num \div k, den \div k>>

Zero == [s |-> 0, n |-> 0, d |-> 1, f |-> EmptyBag]

\* the canonical record of  s * sqrt(n/d) * PROD f
Scalar(s, n, d, f) ==
    IF s = 0 \/ n = 0 THEN Zero
    ELSE LET q == Frac(n, d) IN [s |-> s, n |-> q[1], d |-> q[2], f |-> f]

FromInt(i) == Scalar(Sign(i), i * i, 1, EmptyBag)

One == FromInt(1)

Mul(a, b) == Scalar(a.s * b.s, a.n * b.n, a.d * b.d, a.f (+) b.f)

Neg(a) == [a EXCEPT !.s = -a.s]

\* 1.0 / tf.math.sqrt(v + 1e-10) for a variance v = <<num, den>>
Rsqrt(v) == [s |-> 1, n |-> 1, d |-> 1, f |-> SetToBag({v})]

RECURSIVE SumSeq(_)
SumSeq(q) == IF q = <<>> THEN 0 ELSE Head(q) + SumSeq(Tail(q))

RECURSIVE ProdSeq(_)
ProdSeq(q) == IF q = <<>> THEN 1 ELSE Head(q) * ProdSeq(Tail(q))

\* --------------------------------------------------------------- tensors
Tensor(shape, data) == [shape |-> shape, data |-> data]

Rank(t) == Len(t.shape)

Size(t) == Len(t.data)

\* t.shape[-1]
LastDim(t) == t.shape[Len(t.shape)]

\* the multi-index (0-based, one entry per axis) of the i-th (1-based) entry
\* of a row-major tensor of the given shape
RECURSIVE Unravel(_, _)
Unravel(i, shape) ==
    IF shape = <<>> THEN <<>>
    ELSE LET rest == ProdSeq(Tail(shape))
         IN <<(i - 1) \div rest>> \o Unravel(((i - 1) % rest) + 1, Tail(shape))

\* the multi-index of every entry of t
Indices(t) == [j \in 1..Size(t) |-> Unravel(j, t.shape)]

\* the entries that agree with entry i on every axis outside `axes` (axes are
\* 0-based, as in the source), given ix = Indices(t): the entries a reduction
\* over `axes` combines with entry i
Group(ix, axes, i) ==
    {j \in DOMAIN ix :
        \A a \in 1..Len(ix[i]) : (a - 1) \notin axes => ix[j][a] = ix[i][a]}

\* the sum of f[x] over x \in S
RECURSIVE SumFn(_, _)
SumFn(f, S) ==
    IF S = {} THEN 0
    ELSE LET x == CHOOSE y \in S : TRUE IN f[x] + SumFn(f, S \ {x})

Squares(t) == [j \in 1..Size(t) |-> t.data[j] * t.data[j]]

\* tf.reshape(t, [-1, cols]): same row-major data, rows inferred
Reshape2(t, cols) == Tensor(<<Size(t) \div cols, cols>>, t.data)

\* tf.linalg.norm(m, axis=0) of a rank-2 integer tensor: one norm per column
NormAxis0(m) ==
    LET rows == m.shape[1]
        cols == m.shape[2]
        sq == Squares(m)
    IN [c \in 1..cols |->
           Scalar(1, SumFn(sq, {(r - 1) * cols + c : r \in 1..rows}), 1, EmptyBag)]

\* tf.nn.l2_normalize(t, axis=axes) = t * rsqrt(max(sum(t^2, axes), 1e-12)).
\* The entries are integers, so the sum of squares is 0 (and the entry is 0)
\* or at least 1 (and the max is the sum).
L2Normalize(t, axes) ==
    LET sq == Squares(t)
        ix == Indices(t)
    IN Tensor(t.shape,
              [i \in 1..Size(t) |->
                  LET ss == SumFn(sq, Group(ix, axes, i))
                  IN IF ss = 0 THEN Zero
                     ELSE Scalar(Sign(t.data[i]), sq[i], ss, EmptyBag)])

\* t * g, g a vector broadcast along the last axis of t
MulLast(t, g) ==
    Tensor(t.shape,
           [i \in 1..Size(t) |-> Mul(t.data[i], g[((i - 1) % LastDim(t)) + 1])])

\* tf.nn.moments(x, axes) for axes = all but the last: per last index, the
\* mean and the variance (mean of squared deviations) of an integer tensor
Moments(x, axes) ==
    LET sq == Squares(x)
        val == [j \in 1..Size(x) |-> x.data[j]]
        ix == Indices(x)
        grp == [c \in 1..LastDim(x) |-> Group(ix, axes, c)]
        cnt == [c \in 1..LastDim(x) |-> Cardinality(grp[c])]
        sm == [c \in 1..LastDim(x) |-> SumFn(val, grp[c])]
    IN [mean |-> [c \in 1..LastDim(x) |->
                     Scalar(Sign(sm[c]), sm[c] * sm[c], cnt[c] * cnt[c], EmptyBag)],
        variance |-> [c \in 1..LastDim(x) |->
                     Frac(cnt[c] * SumFn(sq, grp[c]) - sm[c] * sm[c],
                          cnt[c] * cnt[c])]]

\* Tile with each entry repeated rep times in place (tf.repeat), not the whole
\* vector rep times
Tile_Repeat(q, rep) == [i \in 1..(rep * Len(q)) |-> q[((i - 1) \div rep) + 1]]

\* tf.tile(q, [rep]) of a vector
Tile(q, rep) == [i \in 1..(rep * Len(q)) |-> q[((i - 1) % Len(q)) + 1]]

\* list(range(k))
Range(k) == 0..(k - 1)

\* a * b for vectors, with the framework's broadcasting of a length-1 operand;
\* not ok when the shapes are incompatible (the op raises)
Broadcast(a, b) ==
    IF Len(a) = Len(b) THEN [ok |-> TRUE, value |-> [i \in 1..Len(a) |-> Mul(a[i], b[i])]]
    ELSE IF Len(a) = 1 THEN [ok |-> TRUE, value |-> [i \in 1..Len(b) |-> Mul(a[1], b[i])]]
    ELSE IF Len(b) = 1 THEN [ok |-> TRUE, value |-> [i \in 1..Len(a) |-> Mul(a[i], b[1])]]
    ELSE [ok |-> FALSE, value |-> <<>>]

\* the 1-based position of the 0-based multi-index idx in a row-major tensor
RECURSIVE Ravel(_, _)
Ravel(idx, shape) ==
    IF shape = <<>> THEN 1
    ELSE Head(idx) * ProdSeq(Tail(shape)) + Ravel(Tail(idx), Tail(shape))

At(t, idx) == t.data[Ravel(idx, t.shape)]

\* the integer a Scalar record of an integer stands for
IntOf(a) == a.s * (CHOOSE k \in 0..a.n : k * k = a.n)

Relu(i) == IF i < 0 THEN 0 ELSE i

\* ------------------------------------------------- the wrapped layers
\* the kernel values drawn: entries in -1..MaxW, running through that range
\* with stride st from offset o (stride 0 gives the constant kernels, the zero
\* kernel among them)
KernelData(len) ==
    {[i \in 1..len |-> ((i * st + o) % (MaxW + 2)) - 1] :
        st \in 0..(MaxW + 1), o \in 0..(MaxW + 1)}

\* The wrapped layers of the model, as constructed and not yet wrapped:
\*   Dense(2)            kernel [2, 2],    input [2, 2],    output [2, 2]
\*   Conv1D(2, 2)        kernel [2, 1, 2], input [2, 2, 1], output [2, 1, 2]
\*   RNN(cell), 2 units  cell.recurrent_kernel [2, depth], output [2, 2]
\*   ReLU()              no kernel
\* kshape/kinit are the shape and the initial value the reparameterized kernel
\* gets when the layer is built; use_bias and activation are constructor
\* arguments; has_kernel says whether the built layer (the cell, for an RNN)
\* has a `kernel` attribute.
KernelShapes(kind) ==
    CASE kind = "Dense" -> {<<2, 2>>}
      [] kind = "Conv1D" -> {<<2, 1, 2>>}
      [] kind = "RNN" -> {<<2, dp>> : dp \in 1..MaxDepth}
      [] OTHER -> {<<>>}

InputShape(kind) ==
    CASE kind = "Dense" -> <<2, 2>>
      [] kind = "Conv1D" -> <<2, 2, 1>>
      [] kind = "RNN" -> <<2, 1, 1>>
      [] OTHER -> <<2, 2>>

\* the last dimension of the layer's output
Units(kind, kshape) ==
    CASE kind = "RNN" -> kshape[1]
      [] kind = "ReLU" -> InputShape(kind)[2]
      [] OTHER -> kshape[Len(kshape)]

\* The attributes of the layer object and, for an RNN, of its cell: kernel,
\* recurrent_kernel and cell_bias are the cell's for an RNN; bias is the layer
\* object's own `bias` attribute.  kernel_var is the tf.Variable that holds
\* the reparameterized kernel.
NewLayer(kind, hk, ks, kd, ub, b0, act) ==
    [kind |-> kind, has_kernel |-> hk, kshape |-> ks, kinit |-> kd,
     use_bias |-> ub, bias_init |-> b0, activation |-> act, units |-> Units(kind, ks),
     built |-> FALSE, kernel_var |-> NoAttr, kernel |-> NoAttr,
     recurrent_kernel |-> NoAttr, bias |-> NoAttr, cell_bias |-> NoAttr]

Layers ==
    UNION {{NewLayer("Dense", TRUE, ks, kd, ub, IF ub THEN b0 ELSE 0, act) :
               kd \in KernelData(ProdSeq(ks)), ub \in BOOLEAN, b0 \in 0..1,
               act \in {NoActivation, "relu"}} : ks \in KernelShapes("Dense")}
    \cup UNION {{NewLayer("Conv1D", TRUE, ks, kd, TRUE, 0, NoActivation) :
                    kd \in KernelData(ProdSeq(ks))} : ks \in KernelShapes("Conv1D")}
    \cup UNION {{NewLayer("RNN", TRUE, ks, kd, TRUE, 0, "tanh") :
                    kd \in KernelData(ProdSeq(ks))} : ks \in KernelShapes("RNN")}
    \cup {NewLayer("RNN", FALSE, <<2, 1>>, <<0, 0>>, FALSE, 0, "tanh"),
          NewLayer("ReLU", FALSE, <<>>, <<>>, FALSE, 0, "relu")}

\* tf.keras layer.build(input_shape): creates the weights.  A Dense/Conv1D
\* layer gets `kernel`, bound to kernel_var, and `bias` (None without
\* use_bias).  An RNN's cell gets `kernel` (its input kernel, a variable of its
\* own), `recurrent_kernel`, bound to kernel_var, and its bias; the RNN layer
\* object has no `bias` attribute of its own.
LayerBuild(l) ==
    IF l.built THEN l
    ELSE [l EXCEPT
            !.built = TRUE,
            !.kernel_var = IF l.has_kernel THEN Tensor(l.kshape, l.kinit) ELSE NoAttr,
            !.kernel = IF ~l.has_kernel THEN NoAttr
                       ELSE IF l.kind = "RNN" THEN [is |-> "input_kernel_var"]
                       ELSE [is |-> "kernel_var"],
            !.recurrent_kernel = IF l.has_kernel /\ l.kind = "RNN"
                                 THEN [is |-> "kernel_var"] ELSE NoAttr,
            !.bias = IF l.kind \in {"Dense", "Conv1D"}
                     THEN (IF l.use_bias
                           THEN Variable([c \in 1..l.units |-> FromInt(l.bias_init)])
                           ELSE None)
                     ELSE NoAttr,
            !.cell_bias = IF l.kind = "RNN" /\ l.has_kernel
                          THEN Variable([c \in 1..l.kshape[Len(l.kshape)] |-> FromInt(0)])
                          ELSE NoAttr]

\* ---------------------------------------------------------------- state
VARIABLES
    layer,  \* self.layer, the wrapped layer (and its cell)
    wn,     \* the WeightNormalization wrapper's own attributes
    res,    \* what the most recent operation did and returned or raised
    ncalls, \* batches fed to the wrapper so far (forward calls, in Spec)
    ntrain  \* optimizer steps made so far

vars == <<layer, wn, res, ncalls, ntrain>>

\* res: the operation, the exception it raised, the call's inputs, the clone's
\* output x_init if it was computed, the value of g read, what the wrapped
\* layer's forward pass read (outputs), whether _initialize_weights was
\* entered, the variables it assigned, and what the operation returned
NoRes ==
    [op |-> "__init__", error |-> NoError, inputs |-> None, x_init |-> None,
     g_read |-> <<>>, outputs |-> None, init_ran |-> FALSE, assigned |-> {},
     returned |-> None]

\* __init__ (lines 7-17): data_init and is_rnn are set, nothing else exists
NewWrapper(l, data_init) ==
    [data_init |-> data_init, is_rnn |-> (l.kind = "RNN"), built |-> FALSE,
     input_spec |-> None, layer_depth |-> NoAttr, kernel_norm_axes |-> NoAttr,
     g |-> NoAttr, v |-> NoAttr, initialized |-> NoAttr,
     naked_clone_layer |-> NoAttr]

Init ==
    /\ \E l \in Layers, di \in BOOLEAN, pre \in BOOLEAN :
          /\ layer = IF pre THEN LayerBuild(l) ELSE l
          /\ wn = NewWrapper(l, di)
    /\ res = NoRes
    /\ ncalls = 0
    /\ ntrain = 0

\* ---------------------------------------------------------------- build
\* NakedClone without line 70: the clone keeps the layer's activation
NakedClone_KeepsActivation(l, is_rnn) ==
    [kind |-> l.kind, trainable |-> FALSE,
     kernel |-> l.kernel_var, bias |-> l.bias, cell_bias |-> l.cell_bias,
     activation |-> l.activation]

\* tf.keras.layers.serialize / deserialize / build / set_weights (lines 64-70):
\* a structural duplicate with trainable False and the wrapped layer's current
\* weights; the activation is dropped unless the layer is an RNN
NakedClone(l, is_rnn) ==
    [kind |-> l.kind, trainable |-> FALSE,
     kernel |-> l.kernel_var, bias |-> l.bias, cell_bias |-> l.cell_bias,
     activation |-> IF ~is_rnn THEN NoActivation ELSE l.activation]

\* lines 21-22: the input spec, with the batch dimension left open
InputSpec(input_shape) ==
    [is |-> "InputSpec", shape |-> <<"None">> \o Tail(input_shape)]

\* BuildRaise with the kernel test placed after the add_weight calls
BuildRaise_AfterWeights(w, input_shape) ==
    [w EXCEPT !.input_spec = InputSpec(input_shape),
              !.g = Variable(<<One>>), !.initialized = Variable(FALSE)]

\* what the wrapper holds when line 30 raises: lines 21-22 have run
BuildRaise(w, input_shape) == [w EXCEPT !.input_spec = InputSpec(input_shape)]

\* lines 35-38: the attribute the wrapper reparameterizes
KernelAttr(l, is_rnn) == IF is_rnn THEN l.recurrent_kernel ELSE l.kernel

\* the value of the variable that l's attribute `ref` is bound to
Deref(l, ref) == l.kernel_var

\* lines 21-22 and 35-72: the wrapper after a build that does not raise
BuildWeights(w, l, input_shape) ==
    LET kernel == Deref(l, KernelAttr(l, w.is_rnn))
    IN [w EXCEPT
          !.input_spec = InputSpec(input_shape),
          !.layer_depth = LastDim(kernel),
          !.kernel_norm_axes = Range(Rank(kernel) - 1),
          !.g = Variable([c \in 1..LastDim(kernel) |-> One]),
          !.v = KernelAttr(l, w.is_rnn),
          !.initialized = Variable(FALSE),
          !.naked_clone_layer = IF w.data_init THEN NakedClone(l, w.is_rnn)
                                ELSE NoAttr,
          !.built = TRUE]

\* build(input_shape), lines 19-72
Build ==
    /\ ~wn.built
    /\ \E input_shape \in {InputShape(layer.kind)}, l1 \in {LayerBuild(layer)} :
          /\ layer' = l1
          /\ IF l1.kernel = NoAttr
             THEN /\ wn' = BuildRaise(wn, input_shape)
                  /\ res' = [NoRes EXCEPT !.op = "build", !.error = "ValueError"]
             ELSE /\ wn' = BuildWeights(wn, l1, input_shape)
                  /\ res' = [NoRes EXCEPT !.op = "build"]
    /\ UNCHANGED <<ncalls, ntrain>>

\* ------------------------------------------------------ forward passes
\* the input values drawn: entries in 0..MaxW+1 with stride st (the zero
\* batch among them)
InputData(len) == {[i \in 1..len |-> (i * st) % (MaxW + 2)] : st \in 0..(MaxW + 1)}

\* the input batches of a forward call on the layer
Inputs(kind) ==
    {Tensor(InputShape(kind), d) : d \in InputData(ProdSeq(InputShape(kind)))}

\* what an RNN clone can return for a batch: [batch, units] integers
RnnOutputs(units) == {Tensor(<<2, units>>, d) : d \in InputData(2 * units)}

\* Dense: inputs [B, In] . kernel [In, n] + bias
DenseForward(x, k, bias) ==
    Tensor(<<x.shape[1], k.shape[2]>>,
           [o \in 1..(x.shape[1] * k.shape[2]) |->
               LET b == (o - 1) \div k.shape[2]
                   c == (o - 1) % k.shape[2]
               IN SumFn([i \in 0..(k.shape[1] - 1) |->
                            At(x, <<b, i>>) * At(k, <<i, c>>)], 0..(k.shape[1] - 1))
                  + bias[c + 1]])

\* Conv1D, padding valid, stride 1: inputs [B, T, In], kernel [kw, In, n]
Conv1DForward(x, k, bias) ==
    LET steps == x.shape[2] - k.shape[1] + 1
        n == k.shape[3]
        taps == (0..(k.shape[1] - 1)) \X (0..(k.shape[2] - 1))
    IN Tensor(<<x.shape[1], steps, n>>,
              [o \in 1..(x.shape[1] * steps * n) |->
                  LET idx == Unravel(o, <<x.shape[1], steps, n>>)
                  IN SumFn([ji \in taps |->
                               At(x, <<idx[1], idx[2] + ji[1], ji[2]>>)
                               * At(k, <<ji[1], ji[2], idx[3]>>)], taps)
                     + bias[idx[3] + 1]])

\* the clone's forward pass before its activation, on its own weights
ClonePreActivation(clone, inputs) ==
    LET bias == IF clone.bias = None
                THEN [c \in 1..LastDim(clone.kernel) |-> 0]
                ELSE [c \in 1..Len(clone.bias.value) |-> IntOf(clone.bias.value[c])]
    IN IF clone.kind = "Dense" THEN DenseForward(inputs, clone.kernel, bias)
       ELSE Conv1DForward(inputs, clone.kernel, bias)

\* self._naked_clone_layer(inputs), line 138: the clone's own forward pass on
\* its own (build-time) weights.  An RNN clone's output is the framework's; it
\* is the value rnn_out the caller draws.
CloneCall(clone, inputs, rnn_out) ==
    IF clone.kind = "RNN" THEN rnn_out
    ELSE LET pre == ClonePreActivation(clone, inputs)
         IN IF clone.activation = NoActivation THEN pre
            ELSE Tensor(pre.shape, [i \in 1..Size(pre) |-> Relu(pre.data[i])])

\* the value the layer's forward pass reads through one of its attributes
AttrValue(l, attr) ==
    IF attr.is = "kernel_var"
    THEN Tensor(l.kernel_var.shape,
                [i \in 1..Size(l.kernel_var) |-> FromInt(l.kernel_var.data[i])])
    ELSE IF attr.is \in {"tensor", "variable"} THEN attr.value
    ELSE attr

\* self.layer(inputs), line 100: the wrapped layer's own forward pass, kept as
\* the operands it reads (its kernel attributes, its bias, its activation, the
\* inputs), of which the output is a function
LayerCall(l, inputs) ==
    [kernel |-> AttrValue(l, l.kernel),
     recurrent_kernel |-> AttrValue(l, l.recurrent_kernel),
     bias |-> IF l.kind = "RNN" THEN l.cell_bias ELSE l.bias,
     activation |-> l.activation, inputs |-> inputs]

\* an intermediate state of an operation: the wrapper, the layer, the error
\* raised (NoError if none), the variables assigned so far and the clone's
\* output, if computed
St(w, l, error, assigned, x_init) ==
    [wn |-> w, layer |-> l, error |-> error, assigned |-> assigned,
     x_init |-> x_init]

\* InitNorm scaling the prior g by the norm instead of replacing it
InitNorm_ScalesPrior(w, l) ==
    LET v_flat == Reshape2(Deref(l, w.v), w.layer_depth)
        v_norm == NormAxis0(v_flat)
    IN St([w EXCEPT !.g.value = [c \in 1..Len(v_norm) |-> Mul(w.g.value[c], v_norm[c])]],
          l, NoError, {"g"}, None)

\* _init_norm, lines 126-132
InitNorm(w, l) ==
    LET v_flat == Reshape2(Deref(l, w.v), w.layer_depth)
        v_norm == NormAxis0(v_flat)
    IN St([w EXCEPT !.g.value = v_norm], l, NoError, {"g"}, None)

\* AssignBias without the minus sign of line 154
AssignBias_PlusMean(st, m_init, scale_init) ==
    IF st.layer.bias # NoAttr /\ st.layer.bias # None
    THEN LET value == Broadcast(m_init, scale_init)
         IN IF ~value.ok \/ Len(value.value) # Len(st.layer.bias.value)
            THEN [st EXCEPT !.error = "InvalidArgumentError: incompatible shapes"]
            ELSE [st EXCEPT !.layer.bias.value = value.value,
                            !.assigned = st.assigned \cup {"bias"}]
    ELSE st

\* the test of line 153 and the assignment of line 154
AssignBias(st, m_init, scale_init) ==
    IF st.layer.bias # NoAttr /\ st.layer.bias # None
    THEN LET value == Broadcast([c \in 1..Len(m_init) |-> Neg(m_init[c])], scale_init)
         IN IF ~value.ok \/ Len(value.value) # Len(st.layer.bias.value)
            THEN [st EXCEPT !.error = "InvalidArgumentError: incompatible shapes"]
            ELSE [st EXCEPT !.layer.bias.value = value.value,
                            !.assigned = st.assigned \cup {"bias"}]
    ELSE st

\* lines 147-149: the per-channel factor, tiled to the length of g
TileScale(scale_init, glen) ==
    IF Len(scale_init) # glen
    THEN Tile(scale_init, glen \div Len(scale_init))
    ELSE scale_init

\* _data_dep_init, lines 134-157
DataDepInit(w, l, inputs, rnn_out) ==
    LET x_init == CloneCall(w.naked_clone_layer, inputs, rnn_out)
        data_norm_axes == Range(Rank(x_init) - 1)
        mv == Moments(x_init, data_norm_axes)
        scale_init == TileScale([c \in 1..Len(mv.variance) |-> Rsqrt(mv.variance[c])],
                                Len(w.g.value))
        value == Broadcast(w.g.value, scale_init)
    IN IF ~value.ok \/ Len(value.value) # Len(w.g.value)
       THEN St(w, l, "InvalidArgumentError: incompatible shapes", {}, x_init)
       ELSE AssignBias(St([w EXCEPT !.g.value = value.value], l, NoError, {"g"}, x_init),
                       mv.mean, scale_init)

\* the failure of tf.debugging.assert_equal, lines 114-116
AlreadyInitialized == "InvalidArgumentError: The layer has been initialized."

\* InitializeWeights without line 123: the flag is never set
InitializeWeights_FlagNotSet(w, l, inputs, rnn_out) ==
    IF w.initialized.value # FALSE
    THEN St(w, l, AlreadyInitialized, {}, None)
    ELSE IF w.data_init THEN DataDepInit(w, l, inputs, rnn_out) ELSE InitNorm(w, l)

\* InitializeWeights without the assertion of lines 112-118
InitializeWeights_NoAssert(w, l, inputs, rnn_out) ==
    LET st == IF w.data_init THEN DataDepInit(w, l, inputs, rnn_out)
              ELSE InitNorm(w, l)
    IN IF st.error # NoError THEN st
       ELSE [st EXCEPT !.wn.initialized.value = TRUE,
                       !.assigned = st.assigned \cup {"initialized"}]

\* _initialize_weights, lines 106-124
InitializeWeights(w, l, inputs, rnn_out) ==
    IF w.initialized.value # FALSE
    THEN St(w, l, AlreadyInitialized, {}, None)
    ELSE LET st == IF w.data_init THEN DataDepInit(w, l, inputs, rnn_out)
                   ELSE InitNorm(w, l)
         IN IF st.error # NoError THEN st
            ELSE [st EXCEPT !.wn.initialized.value = TRUE,
                            !.assigned = st.assigned \cup {"initialized"}]

\* UpdateWeights with the condition of line 85 ignored: every call initializes
UpdateWeights_IgnoresFlag(w, l, inputs, rnn_out) ==
    InitializeWeights([w EXCEPT !.initialized.value = FALSE], l, inputs, rnn_out)

\* tf.cond(self._initialized, _do_nothing, _update_weights), lines 77-85
UpdateWeights(w, l, inputs, rnn_out) ==
    IF w.initialized.value THEN St(w, l, NoError, {}, None)
    ELSE InitializeWeights(w, l, inputs, rnn_out)

\* ReadG without the control dependency: g as it was before the assignments
ReadG_BeforeInit(before, after) == before.g.value

\* the value of g that lines 78 and 83 read: the variable as it is after the
\* assignments of _initialize_weights (the control dependency of line 82)
ReadG(before, after) == after.g.value

\* line 89 and line 166: l2_normalize(v, kernel_norm_axes) * g
NormalizedKernel(w, l, g) == MulLast(L2Normalize(Deref(l, w.v), w.kernel_norm_axes), g)

\* lines 91-96 and 170-173: the attribute that receives the new kernel
SetKernel(l, is_rnn, value) ==
    IF is_rnn THEN [l EXCEPT !.recurrent_kernel = value]
    ELSE [l EXCEPT !.kernel = value]

\* lines 89-96: the normalized kernel, stored in the wrapped layer's attribute
\* as a plain tensor
ComputeWeights(w, l, g) ==
    SetKernel(l, w.is_rnn, [is |-> "tensor", value |-> NormalizedKernel(w, l, g)])

\* the layer whose forward pass line 100 runs: the one holding the new kernel
\* (the control dependency of line 99)
LayerAtCall(before, after) == after

\* call(inputs), lines 74-101
Call ==
    /\ wn.built
    /\ ncalls < MaxCalls
    /\ \E inputs \in Inputs(layer.kind) :
       \E rnn_out \in IF wn.is_rnn THEN RnnOutputs(layer.units) ELSE {None} :
       \E st \in {UpdateWeights(wn, layer, inputs, rnn_out)} :
          IF st.error # NoError
          THEN /\ wn' = st.wn
               /\ layer' = st.layer
               /\ res' = [NoRes EXCEPT !.op = "call", !.error = st.error,
                                       !.inputs = inputs, !.x_init = st.x_init,
                                       !.init_ran = TRUE, !.assigned = st.assigned]
          ELSE \E g \in {ReadG(wn, st.wn)} :
               \E l2 \in {ComputeWeights(st.wn, st.layer, g)} :
               \E outputs \in {LayerCall(LayerAtCall(st.layer, l2), inputs)} :
                  /\ wn' = st.wn
                  /\ layer' = l2
                  /\ res' = [NoRes EXCEPT !.op = "call", !.inputs = inputs,
                                          !.x_init = st.x_init,
                                          !.g_read = g,
                                          !.outputs = outputs,
                                          !.init_ran = ~wn.initialized.value,
                                          !.assigned = st.assigned,
                                          !.returned = outputs]
    /\ ncalls' = ncalls + 1
    /\ UNCHANGED ntrain

\* ---------------------------------------------------------------- remove
\* RemovedKernel without the factor g of line 166
RemovedKernel_NoScale(w, l) ==
    [is |-> "variable", name |-> IF w.is_rnn THEN "recurrent_kernel" ELSE "kernel",
     value |-> L2Normalize(Deref(l, w.v), w.kernel_norm_axes)]

\* lines 165-168: the variable remove() creates
RemovedKernel(w, l) ==
    [is |-> "variable", name |-> IF w.is_rnn THEN "recurrent_kernel" ELSE "kernel",
     value |-> NormalizedKernel(w, l, w.g.value)]

\* remove(), lines 164-175
Remove ==
    /\ wn.built
    /\ res.op # "remove"
    /\ \E l2 \in {SetKernel(layer, wn.is_rnn, RemovedKernel(wn, layer))} :
          /\ layer' = l2
          /\ res' = [NoRes EXCEPT !.op = "remove", !.returned = l2]
    /\ UNCHANGED <<wn, ncalls, ntrain>>

\* ------------------------------------------------------- the environment
\* g (trainable=True, lines 44-50), v (the layer's kernel variable, line 51)
\* and the layer's bias are trainable variables: an optimizer step or a
\* set_weights assigns them between calls
Train ==
    /\ wn.built
    /\ ntrain < MaxTrain
    /\ \E dv \in {1}, mg \in {-2} :
          /\ wn' = [wn EXCEPT !.g.value = [c \in 1..Len(wn.g.value) |->
                                                Mul(wn.g.value[c], FromInt(mg))]]
          /\ layer' = [layer EXCEPT
                !.kernel_var = Tensor(layer.kernel_var.shape,
                                      [i \in 1..Size(layer.kernel_var) |->
                                          layer.kernel_var.data[i] + dv]),
                !.bias = IF layer.bias \in {NoAttr, None} THEN layer.bias
                         ELSE Variable([c \in 1..Len(layer.bias.value) |->
                                           Mul(layer.bias.value[c], FromInt(mg))])]
    /\ res' = [NoRes EXCEPT !.op = "train"]
    /\ ntrain' = ntrain + 1
    /\ UNCHANGED ncalls

\* _initialize_weights(inputs) invoked directly, outside call (a batch fed
\* to the wrapper, counted with the calls)
DirectInit ==
    /\ wn.built
    /\ ncalls < MaxCalls
    /\ \E inputs \in Inputs(layer.kind) :
       \E rnn_out \in IF wn.is_rnn THEN RnnOutputs(layer.units) ELSE {None} :
       \E st \in {InitializeWeights(wn, layer, inputs, rnn_out)} :
             /\ wn' = st.wn
             /\ layer' = st.layer
             /\ res' = [NoRes EXCEPT !.op = "_initialize_weights",
                                     !.error = st.error,
                                     !.init_ran = TRUE, !.assigned = st.assigned]
    /\ ncalls' = ncalls + 1
    /\ UNCHANGED ntrain

Next == Build \/ Call \/ Remove \/ Train

Spec == Init /\ [][Next]_vars

\* calls, training steps and direct invocations of _initialize_weights
\* (remove() reads g and v and assigns neither them, the biases nor the flag)
NextMisuse == Build \/ Call \/ Train \/ DirectInit

SpecMisuse == Init /\ [][NextMisuse]_vars

\* ----------------------------------------------------------- the claims
\* Reference computations, written per output channel with plain index
\* arithmetic: entry i of a tensor whose last dimension is n belongs to
\* channel ((i - 1) % n) + 1.
ChannelOf(i, n) == ((i - 1) % n) + 1

ChannelEntries(t, c) == {i \in 1..Size(t) : ChannelOf(i, LastDim(t)) = c}

ChannelSum(t, c) == SumFn([i \in 1..Size(t) |-> t.data[i]], ChannelEntries(t, c))

ChannelSumSq(t, c) ==
    SumFn([i \in 1..Size(t) |-> t.data[i] * t.data[i]], ChannelEntries(t, c))

\* sqrt(k) for a natural k
SqrtOf(k) == Scalar(1, k, 1, EmptyBag)

\* v / ||v|| over all axes but the last, times g
RefKernel(v, g) ==
    Tensor(v.shape,
           [i \in 1..Size(v) |->
               LET c == ChannelOf(i, LastDim(v))
               IN IF ChannelSumSq(v, c) = 0 THEN Zero
                  ELSE Mul(Scalar(Sign(v.data[i]), v.data[i] * v.data[i],
                                  ChannelSumSq(v, c), EmptyBag), g[c])])

\* the mean of channel c of x, and 1/sqrt(variance + eps) of channel c of x
RefMean(x, c) ==
    LET cnt == Cardinality(ChannelEntries(x, c))
    IN Scalar(Sign(ChannelSum(x, c)), ChannelSum(x, c) * ChannelSum(x, c),
              cnt * cnt, EmptyBag)

RefFactor(x, c) ==
    LET cnt == Cardinality(ChannelEntries(x, c))
    IN Rsqrt(Frac(cnt * ChannelSumSq(x, c) - ChannelSum(x, c) * ChannelSum(x, c),
                  cnt * cnt))

IsVariable(attr) == attr # NoAttr /\ attr # None

\* the weight the wrapped layer's forward pass read
WeightRead(outputs) ==
    IF wn.is_rnn THEN outputs.recurrent_kernel ELSE outputs.kernel

C1_Raises == wn.data_init /\ Len(wn.g.value) % layer.units # 0

C2_EffectiveWeight ==
    (res.op = "call" /\ res.error = NoError) =>
        /\ res.g_read = wn.g.value
        /\ WeightRead(res.outputs) = RefKernel(layer.kernel_var, wn.g.value)
        /\ (IF wn.is_rnn THEN layer.recurrent_kernel ELSE layer.kernel)
              = [is |-> "tensor", value |-> RefKernel(layer.kernel_var, wn.g.value)]

\* C2 witness: a first call that initialized g to something other than ones
C2_Witness ==
    /\ res.op = "call" /\ res.error = NoError /\ res.init_ran /\ ncalls = 1
    /\ \E c \in 1..Len(wn.g.value) : wn.g.value[c] \notin {One, Zero}

\* C3 (as claimed): a build on a kernel-less layer raises ValueError and
\* leaves wrapper, wrapped layer and input spec exactly as they were.
C3_AsClaimed ==
    [][(res'.op = "build" /\ ~layer.has_kernel) =>
          /\ res'.error = "ValueError"
          /\ wn'.g = NoAttr /\ wn'.initialized = NoAttr
          /\ wn'.naked_clone_layer = NoAttr /\ ~wn'.built
          /\ layer' = layer
          /\ wn'.input_spec = wn.input_spec]_vars

\* C3 (amended): a build on a kernel-less layer raises ValueError; the wrapper
\* then has no scale, no flag, no direction, no clone and is not built, but its
\* input spec is the one made from the build's input shape and the wrapped
\* layer has been built (it is unchanged only if it was built before).
C3_BuildRaises ==
    [][(res'.op = "build" /\ ~layer.has_kernel) =>
          /\ res'.error = "ValueError"
          /\ wn'.g = NoAttr /\ wn'.initialized = NoAttr /\ wn'.v = NoAttr
          /\ wn'.naked_clone_layer = NoAttr /\ ~wn'.built
          /\ wn'.input_spec = [is |-> "InputSpec",
                               shape |-> <<"None">> \o Tail(InputShape(layer.kind))]
          /\ layer'.built
          /\ (layer.built <=> layer' = layer)]_vars

\* C3 witness: a build has raised ValueError on a layer that was not built
C3_Witness ==
    /\ res.op = "build" /\ res.error = "ValueError" /\ ~wn.built
    /\ ~layer.has_kernel /\ layer.built /\ wn.input_spec # None

\* C4: _initialize_weights entered with the flag true raises the assertion's
\* error and assigns nothing (wrapper and layer are unchanged); no forward call
\* ever raises that error, and a call enters _initialize_weights only with the
\* flag false.
C4_ReentryAsserts ==
    /\ [][(wn.built /\ res'.op = "_initialize_weights") =>
            IF wn.initialized.value
            THEN /\ res'.error = AlreadyInitialized
                 /\ res'.assigned = {}
                 /\ wn' = wn /\ layer' = layer
            ELSE res'.error # AlreadyInitialized]_vars
    /\ [](res.op = "call" => res.error # AlreadyInitialized)
    /\ [][(wn.built /\ res'.op = "call" /\ res'.init_ran) =>
            ~wn.initialized.value]_vars

\* C4 witness: a direct re-entry on an initialized wrapper has raised
C4_Witness ==
    /\ res.op = "_initialize_weights" /\ res.error = AlreadyInitialized
    /\ wn.initialized.value

\* C5: with data_init false the first call leaves, in every channel c of g,
\* the square root of the sum of the squares of v's entries of channel c,
\* whatever g held before, and leaves the biases alone.
C5_NormInit ==
    [][(wn.built /\ ~wn.data_init /\ ncalls = 0 /\ res'.op = "call") =>
          /\ res'.error = NoError
          /\ Len(wn'.g.value) = LastDim(layer.kernel_var)
          /\ \A c \in 1..Len(wn'.g.value) :
                /\ wn'.g.value[c] = SqrtOf(ChannelSumSq(layer.kernel_var, c))
                /\ Mul(wn'.g.value[c], wn'.g.value[c])
                      = FromInt(ChannelSumSq(layer.kernel_var, c))
          /\ layer'.bias = layer.bias
          /\ layer'.cell_bias = layer.cell_bias
          /\ layer'.kernel_var = layer.kernel_var]_vars

\* C5 witness: a first call with norm-based init, made after g had been
\* assigned values other than ones, on a kernel of rank 3
C5_Witness ==
    /\ wn.built /\ ~wn.data_init /\ ncalls = 1 /\ ntrain = 1
    /\ res.op = "call" /\ res.init_ran
    /\ Rank(layer.kernel_var) = 3
    /\ \E c \in 1..Len(wn.g.value) : wn.g.value[c] \notin {One, Zero}

\* the bias the layer has, wherever it lives
BiasOf(l) == IF l.kind = "RNN" THEN l.cell_bias ELSE l.bias

\* g after a completed data-dependent initialization that read x
C6_ScaledG(g, x) ==
    [i \in 1..Len(g) |-> Mul(g[i], RefFactor(x, ChannelOf(i, LastDim(x))))]

\* -mean * factor, in the length of the bias
C6_InitBias(len, x) ==
    [i \in 1..len |-> Mul(Neg(RefMean(x, ChannelOf(i, LastDim(x)))),
                          RefFactor(x, ChannelOf(i, LastDim(x))))]

\* C6 (as claimed): a first call with data_init sets g to g * factor and sets
\* the bias to -mean * factor wherever the layer has one, the cell of a
\* recurrent layer included.
C6_AsClaimed ==
    [][(wn.built /\ wn.data_init /\ ncalls = 0 /\ res'.op = "call"
        /\ res'.error = NoError) =>
          /\ wn'.g.value = C6_ScaledG(wn.g.value, res'.x_init)
          /\ IF IsVariable(BiasOf(layer))
             THEN BiasOf(layer').value
                     = C6_InitBias(Len(BiasOf(layer).value), res'.x_init)
             ELSE BiasOf(layer') = BiasOf(layer)]_vars

\* C6 (amended): a first call with data_init whose initialization completes
\* sets g to g * factor (the factor of the clone's output channel, repeated
\* along g) and sets the bias to -mean * factor exactly when the wrapped layer
\* object itself has a `bias` attribute that is not None; the bias of a
\* recurrent layer's cell is not assigned.
C6_DataDepInit ==
    [][(wn.built /\ wn.data_init /\ ncalls = 0 /\ res'.op = "call"
        /\ res'.error = NoError) =>
          /\ wn'.g.value = C6_ScaledG(wn.g.value, res'.x_init)
          /\ IF IsVariable(layer.bias)
             THEN /\ layer'.bias.value = C6_InitBias(Len(layer.bias.value), res'.x_init)
                  /\ res'.assigned = {"g", "bias", "initialized"}
             ELSE /\ layer'.bias = layer.bias
                  /\ res'.assigned = {"g", "initialized"}
          /\ layer'.cell_bias = layer.cell_bias]_vars

\* C6 witness: a first call with data_init has assigned a bias that is not 0
C6_Witness ==
    /\ wn.built /\ wn.data_init /\ ncalls = 1 /\ res.op = "call"
    /\ "bias" \in res.assigned
    /\ \E c \in 1..Len(layer.bias.value) : layer.bias.value[c].s = -1

\* C7: a call on an initialized wrapper returns and changes none of g, v, the
\* biases and the flag; made right after a call with the same inputs, it
\* returns the same outputs.
C7_Idempotent ==
    [][(wn.built /\ wn.initialized.value /\ res'.op = "call") =>
          /\ res'.error = NoError
          /\ wn'.g = wn.g /\ wn'.initialized = wn.initialized
          /\ layer'.kernel_var = layer.kernel_var
          /\ layer'.bias = layer.bias /\ layer'.cell_bias = layer.cell_bias
          /\ (res.op = "call" /\ res.inputs = res'.inputs =>
                res'.outputs = res.outputs /\ res'.returned = res.returned)]_vars

\* C7 witness: a second call, with the inputs of the first, after a first call
\* that initialized with data_init
C7_Witness ==
    /\ wn.built /\ wn.data_init /\ ncalls = 2 /\ res.op = "call"
    /\ res.error = NoError /\ ~res.init_ran /\ ntrain = 0
    /\ \E c \in 1..Len(wn.g.value) : wn.g.value[c] # One

\* C8: remove() binds the reparameterized attribute (cell.recurrent_kernel for
\* an RNN, kernel otherwise) to a variable holding normalize(v) * g as they are
\* then, returns the wrapped layer, changes nothing of the wrapper, of v and of
\* the biases; right after a call, the returned layer reads on any inputs what
\* the wrapped layer read in that call.
C8_Remove ==
    [][res'.op = "remove" =>
          /\ (IF wn.is_rnn THEN layer'.recurrent_kernel ELSE layer'.kernel)
                = [is |-> "variable",
                   name |-> IF wn.is_rnn THEN "recurrent_kernel" ELSE "kernel",
                   value |-> RefKernel(layer.kernel_var, wn.g.value)]
          /\ (IF wn.is_rnn THEN layer'.kernel = layer.kernel
              ELSE layer'.recurrent_kernel = layer.recurrent_kernel)
          /\ res'.returned = layer'
          /\ wn' = wn
          /\ layer'.kernel_var = layer.kernel_var
          /\ layer'.bias = layer.bias /\ layer'.cell_bias = layer.cell_bias
          /\ (res.op = "call" /\ res.error = NoError =>
                /\ LayerCall(res'.returned, res.inputs) = res.outputs
                /\ \A x \in Inputs(layer.kind) :
                      LayerCall(res'.returned, x) = [res.outputs EXCEPT !.inputs = x])]_vars

\* C8 witness: remove() right after a call, with g and v assigned since the
\* initialization
C8_Witness ==
    /\ res.op = "remove" /\ wn.initialized.value /\ ncalls = 2 /\ ntrain = 1
    /\ \E c \in 1..Len(wn.g.value) : wn.g.value[c] \notin {One, Zero}

\* C9: in a data-dependent initialization, if the length of g is a multiple of
\* the channel count n of the clone's output, g[i] is multiplied by the factor
\* of channel i mod n and the flag is set; otherwise the call raises and
\* assigns neither g nor the flag.
C9_Tiling ==
    [][(wn.built /\ wn.data_init /\ ~wn.initialized.value /\ res'.op = "call") =>
          IF Len(wn.g.value) % LastDim(res'.x_init) = 0
          THEN /\ res'.error = NoError
               /\ \A i \in 1..Len(wn.g.value) :
                     wn'.g.value[i]
                        = Mul(wn.g.value[i],
                              RefFactor(res'.x_init,
                                        ((i - 1) % LastDim(res'.x_init)) + 1))
               /\ wn'.initialized.value
          ELSE /\ res'.error # NoError
               /\ wn'.g = wn.g
               /\ wn'.initialized.value = FALSE
               /\ res'.assigned = {}]_vars

\* C9 witness: a factor of 2 channels tiled twice along a g of length 4, the
\* two channels' factors being different
C9_Witness ==
    /\ wn.built /\ wn.data_init /\ res.op = "call" /\ res.init_ran
    /\ res.error = NoError /\ ntrain = 0
    /\ Len(wn.g.value) = 2 * LastDim(res.x_init)
    /\ wn.g.value[1] # wn.g.value[2]
    /\ wn.g.value[3] = wn.g.value[1]

\* C10 (as claimed): every clone is non-trainable, has no activation, and
\* holds the wrapped layer's weights when build returns.
C10_AsClaimed ==
    (wn.built /\ wn.data_init) =>
        /\ wn.naked_clone_layer.trainable = FALSE
        /\ wn.naked_clone_layer.activation = NoActivation
        /\ (res.op = "build" =>
              /\ wn.naked_clone_layer.kernel = layer.kernel_var
              /\ wn.naked_clone_layer.bias = layer.bias
              /\ wn.naked_clone_layer.cell_bias = layer.cell_bias)

\* C10 (amended): every clone is non-trainable and holds the wrapped layer's
\* weights when build returns; the clone of a non-recurrent layer has no
\* activation, and the statistics of the first call are taken from its
\* pre-activation output; the clone of a recurrent layer keeps the layer's
\* activation.
C10_Clone ==
    (wn.built /\ wn.data_init) =>
        /\ wn.naked_clone_layer.trainable = FALSE
        /\ wn.naked_clone_layer.activation
              = (IF wn.is_rnn THEN layer.activation ELSE NoActivation)
        /\ (res.op = "build" =>
              /\ wn.naked_clone_layer.kernel = layer.kernel_var
              /\ wn.naked_clone_layer.bias = layer.bias
              /\ wn.naked_clone_layer.cell_bias = layer.cell_bias)
        /\ (~wn.is_rnn /\ res.op = "call" /\ res.init_ran =>
              res.x_init = ClonePreActivation(wn.naked_clone_layer, res.inputs))

\* C10 witness: the clone of a Dense layer with a relu activation has returned
\* a negative entry to the first call
C10_Witness ==
    /\ wn.built /\ wn.data_init /\ ~wn.is_rnn /\ layer.activation = "relu"
    /\ res.op = "call" /\ res.init_ran
    /\ \E i \in 1..Size(res.x_init) : res.x_init.data[i] < 0

====
